---- MODULE Spec2Model ----
(***************************************************************************)
(* VideoLingo: unlock gate over the user_progress row, the gamification    *)
(* ledger (hearts, xp, streak) over the user_gamification row, the quiz    *)
(* scoring functions and the session tracker over the sessions table.      *)
(*                                                                         *)
(* Each exported function of utils/userProgress.ts and utils/gamification  *)
(* is an operator from the stored row (and the inputs of the call) to the  *)
(* stored row after the call; each action is one call run to completion by *)
(* a single tab.  Day labels 'YYYY-MM-DD' are day indices (days since the  *)
(* epoch); the label getESTDate() returns at the current instant is the    *)
(* variable today.                                                         *)
(***************************************************************************)
EXTENDS Integers, Sequences, FiniteSets, Bags, TLC

VARIABLES
    progress,     \* the participant's user_progress row
    gam,          \* the participant's user_gamification row
    today,        \* the day label getESTDate() returns now
    last,         \* the last call: its name, inputs and return value
    preProgress,  \* progress as it was before the last call
    preGam,       \* gam as it was before the last call
    epoch,        \* history of the current day label (see ClockChange)
    preEpoch,     \* epoch as it was before the last call
    deducts,      \* consecutive deductHeart calls since stored hearts was 20
    saved,        \* history of the scores and stars handed to the store
    quiz,         \* the quiz outcome <<correct, total>> being scored
    condition,    \* the participant's study condition
    tracker,      \* module state of utils/tracking.ts in the tab
    page,         \* document.hidden, the auth state, history of store faults
    sessions,     \* the sessions table: rows in order of creation
    pending,      \* store calls of the tracker that are in flight: a bag
    now,          \* Date.now()
    preTracker,   \* tracker as it was before the last step
    tabs,         \* the Player of each tab: where its handler stands
    clock         \* the instant and the client's zone getESTDate runs at

vars == <<progress, gam, today, last, preProgress, preGam, epoch, preEpoch, deducts,
          saved, quiz, condition, tracker, page, sessions, pending, now,
          preTracker, tabs, clock>>

\* the tracker's part of the state
trackerVars == <<tracker, page, sessions, pending, now, preTracker>>

\* the state of the two-tab and of the day-label specifications
tabVars == <<tabs, clock>>

----------------------------------------------------------------------------
(* Bounds of the model *)

NumUnits == 3
MaxDay == 2
MaxXP == 55
ResetCap == 2
MaxTime == 2
MaxSessions == 2
MaxPending == 2
MaxTotal == 12
MaxQuizzes == 2
MaxWrong == 1
MaxHours == 48
MaxRuns == 2

(* Constants of the program *)

MAX_HEARTS == 20
MsPerDay == 86400000
MsPerMinute == 60000

NoDate == 0 - 1

\* null in a column, in a JSON object and as a return value
Absent == 0 - 1

\* Math.max
Max(a, b) == IF a > b THEN a ELSE b

Days == 0..MaxDay

\* videos.map(v => v.id): opaque ids, in catalog order (index 0 first)
allVideoIds == [i \in 1..NumUnits |-> 100 + i]
VideoIds == {allVideoIds[i] : i \in 1..NumUnits}

Includes(arr, x) == \E k \in 1..Len(arr) : arr[k] = x

\* obj[key] || dflt on a JSON object: absent keys and 0 both give dflt
OrDefault(obj, key, dflt) ==
    IF key \in DOMAIN obj /\ obj[key] # 0 THEN obj[key] ELSE dflt

----------------------------------------------------------------------------
(* user_progress *)

NoProgressRow ==
    [exists |-> FALSE, completed_videos |-> <<>>,
     video_scores |-> <<>>, video_stars |-> <<>>]

EmptyProgress == [completedVideos |-> <<>>, videoScores |-> <<>>]

getUserProgressIgnoresError(row, readOk) ==
    IF row.exists
    THEN [completedVideos |-> row.completed_videos,
          videoScores |-> row.video_scores]
    ELSE EmptyProgress

getUserProgress(row, readOk) ==
    IF ~readOk THEN EmptyProgress
    ELSE IF row.exists
         THEN [completedVideos |-> row.completed_videos,
               videoScores |-> row.video_scores]
         ELSE EmptyProgress

isVideoUnlockedNoFirst(row, readOk, videoIndex) ==
    LET completedVideos == getUserProgress(row, readOk).completedVideos
    IN IF Len(completedVideos) = 0 THEN FALSE
       ELSE IF videoIndex > 0 /\ videoIndex < NumUnits
            THEN Includes(completedVideos, allVideoIds[videoIndex])
            ELSE FALSE

isVideoUnlockedSameIndex(row, readOk, videoIndex) ==
    IF videoIndex = 0 THEN TRUE
    ELSE LET completedVideos == getUserProgress(row, readOk).completedVideos
         IN IF Len(completedVideos) = 0 THEN FALSE
            ELSE IF videoIndex > 0 /\ videoIndex < NumUnits
                 THEN Includes(completedVideos, allVideoIds[videoIndex + 1])
                 ELSE FALSE

isVideoUnlockedNoRange(row, readOk, videoIndex) ==
    IF videoIndex = 0 THEN TRUE
    ELSE LET completedVideos == getUserProgress(row, readOk).completedVideos
         IN IF Len(completedVideos) = 0 THEN FALSE
            ELSE IF videoIndex > 0
                 THEN Includes(completedVideos, allVideoIds[videoIndex])
                 ELSE FALSE

\* allVideoIds is 0-based in the source: allVideoIds[videoIndex - 1] there
\* is allVideoIds[videoIndex] here
isVideoUnlocked(row, readOk, videoIndex) ==
    IF videoIndex = 0 THEN TRUE
    ELSE LET completedVideos == getUserProgress(row, readOk).completedVideos
         IN IF Len(completedVideos) = 0 THEN FALSE
            ELSE IF videoIndex > 0 /\ videoIndex < NumUnits
                 THEN Includes(completedVideos, allVideoIds[videoIndex])
                 ELSE FALSE

\* upsert on participant_id: video_stars is not among the written columns
saveUserProgress(row, p) ==
    [exists |-> TRUE, completed_videos |-> p.completedVideos,
     video_scores |-> p.videoScores, video_stars |-> row.video_stars]

\* the record handed to saveUserProgress
MarkedProgress(row, readOk, videoId, score) ==
    LET p == getUserProgress(row, readOk)
        completed == IF Includes(p.completedVideos, videoId)
                     THEN p.completedVideos
                     ELSE Append(p.completedVideos, videoId)
        currentHighScore == OrDefault(p.videoScores, videoId, 0)
        scores == IF score > currentHighScore
                  THEN [k \in DOMAIN p.videoScores \cup {videoId} |->
                           IF k = videoId THEN score ELSE p.videoScores[k]]
                  ELSE p.videoScores
    IN [completedVideos |-> completed, videoScores |-> scores]

markVideoCompletedPartial(row, readOk, writeOk, videoId, score) ==
    LET marked == MarkedProgress(row, readOk, videoId, score)
    IN IF writeOk THEN saveUserProgress(row, marked)
       ELSE saveUserProgress(row, [completedVideos |-> marked.completedVideos,
                                   videoScores |-> getUserProgress(row, readOk).videoScores])

\* writeOk = FALSE: the upsert fails, saveUserProgress throws, the row stays
markVideoCompleted(row, readOk, writeOk, videoId, score) ==
    IF writeOk THEN saveUserProgress(row, MarkedProgress(row, readOk, videoId, score))
    ELSE row

\* AuthContext.initializeParticipantProgress: a row with nothing completed
\* is inserted when the select finds none
initializeParticipantProgress(row, ok) ==
    IF ok /\ ~row.exists
    THEN [exists |-> TRUE, completed_videos |-> <<>>, video_scores |-> <<>>,
          video_stars |-> <<>>]
    ELSE row

saveVideoStarsAlways(row, readOk, writeOk, videoId, stars) ==
    IF ~readOk THEN [row |-> row, writes |-> 0]
    ELSE LET currentStars == IF row.exists THEN row.video_stars ELSE <<>>
             newStars == [k \in DOMAIN currentStars \cup {videoId} |->
                             IF k = videoId THEN stars ELSE currentStars[k]]
         IN [row |-> IF writeOk /\ row.exists
                     THEN [row EXCEPT !.video_stars = newStars]
                     ELSE row,
             writes |-> 1]

\* a failed select returns; the update (not an upsert) changes the row if
\* there is one, and its failure is logged
saveVideoStars(row, readOk, writeOk, videoId, stars) ==
    IF ~readOk THEN [row |-> row, writes |-> 0]
    ELSE LET currentStars == IF row.exists THEN row.video_stars ELSE <<>>
             currentStarCount == OrDefault(currentStars, videoId, 0)
             newStars == [k \in DOMAIN currentStars \cup {videoId} |->
                             IF k = videoId THEN stars ELSE currentStars[k]]
         IN IF stars > currentStarCount
            THEN [row |-> IF writeOk /\ row.exists
                          THEN [row EXCEPT !.video_stars = newStars]
                          ELSE row,
                  writes |-> 1]
            ELSE [row |-> row, writes |-> 0]

\* progress.videoScores[videoId] || null: an absent key and 0 both give null
getVideoScore(row, readOk, videoId) ==
    OrDefault(getUserProgress(row, readOk).videoScores, videoId, Absent)

----------------------------------------------------------------------------
(* user_gamification *)

NoGamRow ==
    [exists |-> FALSE, xp |-> 0, hearts |-> 0, streak_days |-> 0,
     last_activity_date |-> NoDate]

\* the column values an insert that leaves a column out would take
DefaultGamRow ==
    [exists |-> TRUE, xp |-> 0, hearts |-> MAX_HEARTS, streak_days |-> 0,
     last_activity_date |-> NoDate]

NoData ==
    [found |-> FALSE, xp |-> 0, hearts |-> 0, streakDays |-> 0,
     lastActivityDate |-> NoDate]

\* x || dflt on a number: 0 (and null) give dflt
Or(x, dflt) == IF x = 0 THEN dflt ELSE x

getGamificationData(row, readOk) ==
    IF ~readOk \/ ~row.exists THEN NoData
    ELSE [found |-> TRUE,
          xp |-> Or(row.xp, 0),
          hearts |-> Or(row.hearts, 20),
          streakDays |-> Or(row.streak_days, 0),
          lastActivityDate |-> row.last_activity_date]

\* what a call did: the row after it, the writes it issued, the writes that
\* set hearts to MAX_HEARTS, whether it threw, and what it returned
Outcome(row, writes, resets, threw, ret) ==
    [row |-> row, writes |-> writes, resets |-> resets, threw |-> threw, ret |-> ret]

Has(updates, key) == key \in DOMAIN updates

\* upsert on participant_id of the columns named in updates
updateGamificationData(row, updates, writeOk) ==
    LET base == IF row.exists THEN row ELSE DefaultGamRow
        sets == IF Has(updates, "hearts") /\ updates.hearts = MAX_HEARTS THEN 1 ELSE 0
    IN IF ~writeOk THEN Outcome(row, 1, 0, TRUE, FALSE)
       ELSE Outcome(
              [exists |-> TRUE,
               xp |-> IF Has(updates, "xp") THEN updates.xp ELSE base.xp,
               hearts |-> IF Has(updates, "hearts") THEN updates.hearts ELSE base.hearts,
               streak_days |-> IF Has(updates, "streakDays")
                               THEN updates.streakDays ELSE base.streak_days,
               last_activity_date |-> IF Has(updates, "lastActivityDate")
                                      THEN updates.lastActivityDate
                                      ELSE base.last_activity_date],
              1, sets, FALSE, FALSE)

Unwritten(row) == Outcome(row, 0, 0, FALSE, FALSE)

\* await first; await second: second, run on the row first left, unless
\* first threw
AndThen(first, second) ==
    IF first.threw THEN first
    ELSE Outcome(second.row, first.writes + second.writes,
                 first.resets + second.resets, second.threw, second.ret)

addXPRefillsHearts(row, amount, readOk, writeOk) ==
    LET current == getGamificationData(row, readOk)
    IN IF current.found
       THEN updateGamificationData(row, [xp |-> current.xp + amount, hearts |-> 20],
                                   writeOk)
       ELSE Unwritten(row)

addXP(row, amount, readOk, writeOk) ==
    LET current == getGamificationData(row, readOk)
    IN IF current.found
       THEN updateGamificationData(row, [xp |-> current.xp + amount], writeOk)
       ELSE Unwritten(row)

\* userVersion.isGamifiedVersion
isGamifiedVersionAll(cond) == cond \in {"experimental", "control"}

isGamifiedVersion(cond) == cond = "experimental"

updateHearts(row, hearts, writeOk) ==
    updateGamificationData(row, [hearts |-> hearts], writeOk)

calculateStarsAnyTotal(correct, total) ==
    IF correct = 10 THEN 3
    ELSE IF correct >= 7 /\ correct <= 9 THEN 2
    ELSE 1

calculateStars(correct, total) ==
    IF correct = 10 /\ total = 10 THEN 3
    ELSE IF correct >= 7 /\ correct <= 9 THEN 2
    ELSE 1

calculateXPBonusFromSeven(correct, total) ==
    (correct * 5) + (IF correct >= 7 THEN 10 ELSE 0)
                  + (IF correct = 10 /\ total = 10 THEN 20 ELSE 0)

calculateXP(correct, total) ==
    (correct * 5) + (IF correct >= 8 THEN 10 ELSE 0)
                  + (IF correct = 10 /\ total = 10 THEN 20 ELSE 0)

\* new Date('YYYY-MM-DD').getTime(): UTC midnight of the day, in ms
DateTime(label) == label * MsPerDay

\* date.toISOString().split('T')[0]: the UTC day an instant falls in
ISODay(ms) == ms \div MsPerDay

\* const estOffset = -5 * 60, in minutes
estOffset == 0 - 300

\* instant is now.getTime(), timezoneOffset is now.getTimezoneOffset() of
\* the client (minutes, UTC minus local time, taken as the same at estTime);
\* getHours, getMinutes and setDate work on the client's local time of
\* estTime, toISOString on its UTC time
getESTDate(instant, timezoneOffset) ==
    LET utc == instant + (timezoneOffset * MsPerMinute)
        estTime == utc + (estOffset * MsPerMinute)
        localTime == estTime - (timezoneOffset * MsPerMinute)
        hours == (localTime \div (60 * MsPerMinute)) % 24
        minutes == (localTime \div MsPerMinute) % 60
        rolled == IF hours = 23 /\ minutes >= 59 THEN estTime + MsPerDay ELSE estTime
    IN ISODay(rolled)

shouldResetHearts(lastResetDate, todayEST) ==
    IF lastResetDate = NoDate THEN TRUE
    ELSE todayEST # ISODay(DateTime(lastResetDate))

checkAndResetDailyHearts(row, todayEST, readOk, writeOk) ==
    LET current == getGamificationData(row, readOk)
    IN IF ~current.found THEN Unwritten(row)
       ELSE IF shouldResetHearts(current.lastActivityDate, todayEST)
            THEN updateGamificationData(row, [hearts |-> 20], writeOk)
            ELSE Unwritten(row)

DiffDaysAbs(todayEST, lastActivity) ==
    LET lastActivityEST == ISODay(DateTime(lastActivity))
        ms == DateTime(todayEST) - DateTime(lastActivityEST)
    IN (IF ms < 0 THEN 0 - ms ELSE ms) \div MsPerDay

\* Math.floor of a quotient is \div, also below zero
DiffDays(todayEST, lastActivity) ==
    LET lastActivityEST == ISODay(DateTime(lastActivity))
    IN (DateTime(todayEST) - DateTime(lastActivityEST)) \div MsPerDay

NewStreakSameDayWrites(current, todayEST) ==
    LET newStreak == Or(current.streakDays, 0)
    IN IF newStreak = 0 THEN [write |-> TRUE, streak |-> 1]
       ELSE IF current.lastActivityDate = NoDate THEN [write |-> TRUE, streak |-> 1]
       ELSE LET diffDays == DiffDays(todayEST, current.lastActivityDate)
            IN IF diffDays = 0 THEN [write |-> TRUE, streak |-> newStreak]
               ELSE IF diffDays = 1
                    THEN [write |-> TRUE, streak |-> current.streakDays + 1]
                    ELSE [write |-> TRUE, streak |-> 1]

NewStreakNoIncrement(current, todayEST) ==
    LET newStreak == Or(current.streakDays, 0)
    IN IF newStreak = 0 THEN [write |-> TRUE, streak |-> 1]
       ELSE IF current.lastActivityDate = NoDate THEN [write |-> TRUE, streak |-> 1]
       ELSE LET diffDays == DiffDays(todayEST, current.lastActivityDate)
            IN IF diffDays = 0 THEN [write |-> FALSE, streak |-> newStreak]
               ELSE IF diffDays = 1
                    THEN [write |-> TRUE, streak |-> current.streakDays]
                    ELSE [write |-> TRUE, streak |-> 1]

NewStreakNoFloor(current, todayEST) ==
    LET newStreak == Or(current.streakDays, 0)
    IN IF current.lastActivityDate = NoDate THEN [write |-> TRUE, streak |-> 1]
       ELSE LET diffDays == DiffDays(todayEST, current.lastActivityDate)
            IN IF diffDays = 0 THEN [write |-> FALSE, streak |-> newStreak]
               ELSE IF diffDays = 1
                    THEN [write |-> TRUE, streak |-> current.streakDays + 1]
                    ELSE [write |-> TRUE, streak |-> 1]

\* the streak updateStreak writes for an existing record; write = FALSE is
\* its early return
NewStreak(current, todayEST) ==
    LET newStreak == Or(current.streakDays, 0)
    IN IF newStreak = 0 THEN [write |-> TRUE, streak |-> 1]
       ELSE IF current.lastActivityDate = NoDate THEN [write |-> TRUE, streak |-> 1]
       ELSE LET diffDays == DiffDays(todayEST, current.lastActivityDate)
            IN IF diffDays = 0 THEN [write |-> FALSE, streak |-> newStreak]
               ELSE IF diffDays = 1
                    THEN [write |-> TRUE, streak |-> current.streakDays + 1]
                    ELSE [write |-> TRUE, streak |-> 1]

BaselineStreakZero(todayEST) ==
    [streakDays |-> 0, lastActivityDate |-> todayEST, hearts |-> 20, xp |-> 0]

\* what updateStreak writes when it finds no record
Baseline(todayEST) ==
    [streakDays |-> 1, lastActivityDate |-> todayEST, hearts |-> 20, xp |-> 0]

updateStreak(row, todayEST, readOk, writeOk) ==
    LET current == getGamificationData(row, readOk)
    IN IF ~current.found
       THEN updateGamificationData(row, Baseline(todayEST), writeOk)
       ELSE LET new == NewStreak(current, todayEST)
            IN IF new.write
               THEN updateGamificationData(row,
                        [streakDays |-> new.streak, lastActivityDate |-> todayEST],
                        writeOk)
               ELSE Unwritten(row)

checkStreakOnLoginStreakFirst(row, todayEST, readOk, writeOk) ==
    LET streak == updateStreak(row, todayEST, readOk, writeOk)
    IN AndThen(streak, checkAndResetDailyHearts(streak.row, todayEST, readOk, writeOk))

checkStreakOnLogin(row, todayEST, readOk, writeOk) ==
    LET reset == checkAndResetDailyHearts(row, todayEST, readOk, writeOk)
    IN AndThen(reset, updateStreak(reset.row, todayEST, readOk, writeOk))

canUserPlayNoDefault(row, todayEST, readOk, writeOk) ==
    LET reset == checkAndResetDailyHearts(row, todayEST, readOk, writeOk)
        updated == getGamificationData(reset.row, readOk)
    IN IF reset.threw THEN reset
       ELSE Outcome(reset.row, reset.writes, reset.resets, FALSE,
                    (IF updated.found THEN Or(updated.hearts, 0) ELSE 0) > 0)

canUserPlay(row, todayEST, readOk, writeOk) ==
    LET current == getGamificationData(row, readOk)
    IN IF ~current.found THEN Outcome(row, 0, 0, FALSE, TRUE)
       ELSE LET reset == checkAndResetDailyHearts(row, todayEST, readOk, writeOk)
                updated == getGamificationData(reset.row, readOk)
            IN IF reset.threw THEN reset
               ELSE Outcome(reset.row, reset.writes, reset.resets, FALSE,
                            (IF updated.found THEN Or(updated.hearts, 0) ELSE 0) > 0)

deductHeartUnclamped(row, readOk, writeOk) ==
    LET current == getGamificationData(row, readOk)
    IN IF current.found
       THEN updateHearts(row, row.hearts - 1, writeOk)
       ELSE Unwritten(row)

\* GamifiedQuiz.handleCheck on a wrong answer
deductHeart(row, readOk, writeOk) ==
    LET current == getGamificationData(row, readOk)
    IN IF current.found
       THEN updateHearts(row, Max(0, current.hearts - 1), writeOk)
       ELSE Unwritten(row)

\* GamifiedHome.loadGamification: the reset check, updateStreak, then its
\* own select (which fails with the other reads) and the repair of a streak
\* of 0; its try/catch keeps a throw from leaving it
loadGamification(row, todayEST, readOk, writeOk) ==
    LET reset == checkAndResetDailyHearts(row, todayEST, readOk, writeOk)
        checked == AndThen(reset, updateStreak(reset.row, todayEST, readOk, writeOk))
        data == checked.row
        done == AndThen(checked,
                    IF readOk /\ data.exists /\ Or(data.streak_days, 0) = 0
                    THEN updateGamificationData(data, [streakDays |-> 1], writeOk)
                    ELSE Unwritten(data))
    IN Outcome(done.row, done.writes, done.resets, FALSE, FALSE)

----------------------------------------------------------------------------
(* Session tracker: utils/tracking.ts *)

\* null of the module-level variables; Date.now() and row ids are above it
Null == 0

\* the id of the one participant using the tab
Participant == 1

\* currentParticipantId stands for the cached identity (participant,
\* condition, day number), which is set and cleared as a whole
NoTracker ==
    [currentSessionId |-> Null, sessionStartTime |-> Null,
     currentParticipantId |-> Null, trackingInitialized |-> FALSE]

\* a call on the sessions table in flight; late records that it was issued
\* by a tab-visible event while nobody was logged in
StoreCall(op, caller, id, at, duration, reason, late) ==
    [op |-> op, caller |-> caller, id |-> id, at |-> at,
     duration_ms |-> duration, ended_reason |-> reason, late |-> late]

\* startSession up to its await: the identity is cached, the insert issued
\* with started_at = now
startSessionIssue(tr) == [tr EXCEPT !.currentParticipantId = Participant]

InsertCall(caller, t, late) == StoreCall("insert", caller, Null, t, Absent, "", late)

\* the row the insert creates; closeIssued, afterUnissued and late are
\* history: whether an update of the row was ever issued, whether at its
\* creation an earlier row had none issued, and late of the insert
SessionRow(call, unissued) ==
    [participant_id |-> Participant, started_at |-> call.at, ended_at |-> Absent,
     duration_ms |-> Absent, ended_reason |-> "", closeIssued |-> FALSE,
     afterUnissued |-> unissued, late |-> call.late]

\* startSession after its await: an error returns null, a row sets the
\* session id and sessionStartTime = Date.now()
startSessionReturn(tr, ok, id, t) ==
    IF ok THEN [tr EXCEPT !.currentSessionId = id, !.sessionStartTime = t]
    ELSE tr

endSessionCallsUnguarded(tr, reason, t, caller) ==
    {StoreCall("update", caller, tr.currentSessionId, t,
               IF tr.sessionStartTime # Null THEN t - tr.sessionStartTime ELSE Absent,
               reason, FALSE)}

\* an update that takes the default of the reason parameter
endSessionCallsDefaultReason(tr, reason, t, caller) ==
    IF tr.currentSessionId = Null THEN {}
    ELSE {StoreCall("update", caller, tr.currentSessionId, t,
                    IF tr.sessionStartTime # Null THEN t - tr.sessionStartTime
                    ELSE Absent,
                    "normal", FALSE)}

\* endSession and endSessionSync up to the update: none without a session
endSessionCalls(tr, reason, t, caller) ==
    IF tr.currentSessionId = Null THEN {}
    ELSE {StoreCall("update", caller, tr.currentSessionId, t,
                    IF tr.sessionStartTime # Null THEN t - tr.sessionStartTime
                    ELSE Absent,
                    reason, FALSE)}

\* endSession after its await, whatever the update returned
endSessionReturn(tr) ==
    [tr EXCEPT !.currentSessionId = Null, !.sessionStartTime = Null]

\* an endSessionSync that leaves the clearing to the return of its update
endSessionSyncKeepsSession(tr) == tr

\* endSessionSync clears the session at once; its update is not awaited
endSessionSync(tr) ==
    IF tr.currentSessionId = Null THEN tr
    ELSE [tr EXCEPT !.currentSessionId = Null, !.sessionStartTime = Null]

\* cleanupTracking after endSession
cleanupTrackingReturn(tr) == [tr EXCEPT !.currentParticipantId = Null]

\* update(...).eq('id', call.id) applied to the table
Updated(rows, call) ==
    [i \in 1..Len(rows) |->
        IF i = call.id
        THEN [rows[i] EXCEPT !.ended_at = call.at,
                             !.duration_ms = call.duration_ms,
                             !.ended_reason = call.ended_reason]
        ELSE rows[i]]

\* rows with the history of the updates in calls being issued
MarkIssued(rows, calls) ==
    [i \in 1..Len(rows) |->
        IF \E call \in calls : call.id = i
        THEN [rows[i] EXCEPT !.closeIssued = TRUE]
        ELSE rows[i]]

\* the columns of the rows, without their history
Columns(rows) ==
    [i \in 1..Len(rows) |->
        [participant_id |-> rows[i].participant_id, started_at |-> rows[i].started_at,
         ended_at |-> rows[i].ended_at, duration_ms |-> rows[i].duration_ms,
         ended_reason |-> rows[i].ended_reason]]

----------------------------------------------------------------------------
(* The last call *)

Call(op, arg, ok, ret, writes, threw) ==
    [op |-> op, arg |-> arg, ok |-> ok, ret |-> ret, writes |-> writes,
     threw |-> threw]

NoEpoch == [changed |-> FALSE, resets |-> 0, faulted |-> FALSE]

\* nothing handed to the store yet
NoneSaved == [scores |-> <<>>, stars |-> <<>>, results |-> 0, faulted |-> FALSE]

NoQuiz == <<0, 0>>

\* the tabs of the participant
Tabs == {1, 2}

\* a tab whose Player runs no handler; progress, stars and xp hold what
\* the handler last read from the store, runs counts its completions
IdleTab ==
    [pc |-> "idle", video |-> 0, score |-> NoQuiz, progress |-> EmptyProgress,
     stars |-> <<>>, xp |-> 0, runs |-> 0]

NoClock == [instant |-> 0, offset |-> 0]

\* a fresh page on an empty store: no rows, nobody logged in
InitStore ==
    /\ progress = NoProgressRow
    /\ gam = NoGamRow
    /\ today = 0
    /\ last = Call("none", 0, TRUE, FALSE, 0, FALSE)
    /\ preProgress = progress
    /\ preGam = gam
    /\ epoch = NoEpoch
    /\ preEpoch = NoEpoch
    /\ deducts = 0
    /\ saved = NoneSaved
    /\ tracker = NoTracker
    /\ page = [hidden |-> FALSE, auth |-> "out", loggingIn |-> FALSE,
               faulted |-> FALSE]
    /\ sessions = <<>>
    /\ pending = EmptyBag
    /\ now = 1
    /\ preTracker = tracker
    /\ tabs = [t \in Tabs |-> IdleTab]
    /\ clock = NoClock

InitTab ==
    /\ InitStore
    /\ quiz = NoQuiz

Init == InitTab /\ condition = "experimental"

----------------------------------------------------------------------------
(* Unlock gate: calls on user_progress *)

LedgerUnchanged ==
    /\ UNCHANGED <<gam, today, preGam, epoch, preEpoch, deducts>>
    /\ UNCHANGED <<quiz, condition, trackerVars, tabVars>>

\* Home/Journey/Player: isVideoUnlocked(participantId, video.id, i, allVideoIds)
QueryUnlocked ==
    \E videoIndex \in (0 - 1)..NumUnits, readOk \in BOOLEAN :
        /\ last' = Call("isVideoUnlocked", videoIndex, readOk,
                        isVideoUnlocked(progress, readOk, videoIndex), 0, FALSE)
        /\ preProgress' = progress
        /\ UNCHANGED <<progress, saved>>
        /\ LedgerUnchanged

Scores == {0, 9, 10}

\* hist with value handed in for key: the largest value per key so far
Passed(hist, key, value) ==
    [k \in DOMAIN hist \cup {key} |->
        IF k # key THEN hist[k]
        ELSE IF key \in DOMAIN hist THEN Max(hist[key], value) ELSE value]

\* obj[key] of a JSON object, Absent for a key it does not have
Stored(obj, key) == IF key \in DOMAIN obj THEN obj[key] ELSE Absent

\* Player.handleQuizComplete: markVideoCompleted(participantId, video.id,
\* score.correct, score.total)
CompleteVideo ==
    \E videoId \in VideoIds, score \in Scores, readOk \in BOOLEAN, writeOk \in BOOLEAN :
        /\ progress' = markVideoCompleted(progress, readOk, writeOk, videoId, score)
        /\ last' = Call("markVideoCompleted", videoId, readOk /\ writeOk, FALSE,
                        1, ~writeOk)
        /\ preProgress' = progress
        /\ UNCHANGED saved
        /\ LedgerUnchanged

\* CompleteVideo with the history of the scores handed to the store
CompleteVideoScored ==
    \E videoId \in VideoIds, score \in Scores, readOk \in BOOLEAN, writeOk \in BOOLEAN :
        /\ progress' = markVideoCompleted(progress, readOk, writeOk, videoId, score)
        /\ last' = Call("markVideoCompleted", videoId, readOk /\ writeOk, FALSE,
                        1, ~writeOk)
        /\ preProgress' = progress
        /\ saved' = [saved EXCEPT
                        !.scores = IF readOk /\ writeOk THEN Passed(@, videoId, score)
                                   ELSE @,
                        !.faulted = @ \/ ~(readOk /\ writeOk)]
        /\ LedgerUnchanged

\* Home, Journey: getVideoScore(participantId, video.id)
QueryScore ==
    \E videoId \in VideoIds, readOk \in BOOLEAN :
        /\ last' = Call("getVideoScore", videoId, readOk,
                        getVideoScore(progress, readOk, videoId), 0, FALSE)
        /\ preProgress' = progress
        /\ UNCHANGED <<progress, saved>>
        /\ LedgerUnchanged

NextUnlock == QueryUnlocked \/ CompleteVideo \/ QueryScore

SpecUnlock == Init /\ [][NextUnlock]_vars

NextBestScore == CompleteVideoScored \/ QueryScore

SpecBestScore == Init /\ [][NextBestScore]_vars

----------------------------------------------------------------------------
(* Ledger: calls on user_gamification *)

\* a call named op that did out; epoch counts, up to ResetCap, the writes
\* that set hearts to MAX_HEARTS on the current day label, and records
\* whether the store failed a call on it
Ledger(op, arg, out, readOk, writeOk) ==
    /\ gam' = out.row
    /\ last' = Call(op, arg, readOk /\ writeOk, out.ret, out.writes, out.threw)
    /\ preGam' = gam
    /\ preEpoch' = epoch
    /\ epoch' = [epoch EXCEPT !.resets = IF @ + out.resets > ResetCap
                                          THEN ResetCap ELSE @ + out.resets,
                               !.faulted = @ \/ ~(readOk /\ writeOk)]
    /\ UNCHANGED <<progress, preProgress, today, saved, quiz, condition, trackerVars, tabVars>>

\* AuthContext.login, studyCondition login: checkStreakOnLogin
Login ==
    \E readOk \in BOOLEAN, writeOk \in BOOLEAN :
        /\ Ledger("checkStreakOnLogin", 0,
                  checkStreakOnLogin(gam, today, readOk, writeOk), readOk, writeOk)
        /\ deducts' = 0

\* GamifiedHome mounts
HomeLoad ==
    \E readOk \in BOOLEAN, writeOk \in BOOLEAN :
        /\ Ledger("loadGamification", 0,
                  loadGamification(gam, today, readOk, writeOk), readOk, writeOk)
        /\ deducts' = 0

ResetCheck ==
    \E readOk \in BOOLEAN, writeOk \in BOOLEAN :
        /\ Ledger("checkAndResetDailyHearts", 0,
                  checkAndResetDailyHearts(gam, today, readOk, writeOk), readOk, writeOk)
        /\ deducts' = 0

PlayCheck ==
    \E readOk \in BOOLEAN, writeOk \in BOOLEAN :
        /\ Ledger("canUserPlay", 0,
                  canUserPlay(gam, today, readOk, writeOk), readOk, writeOk)
        /\ deducts' = 0

\* Player.handleQuizComplete ends with updateStreak
StreakUpdate ==
    \E readOk \in BOOLEAN, writeOk \in BOOLEAN :
        /\ Ledger("updateStreak", 0,
                  updateStreak(gam, today, readOk, writeOk), readOk, writeOk)
        /\ deducts' = 0

QuizOutcomes == {<<0, 10>>, <<9, 10>>, <<10, 10>>}

\* Player.handleQuizComplete awards calculateXP(correct, total)
XPAward ==
    \E q \in QuizOutcomes, readOk \in BOOLEAN, writeOk \in BOOLEAN :
        LET amount == calculateXP(q[1], q[2])
        IN /\ gam.xp + amount <= MaxXP
           /\ Ledger("addXP", amount, addXP(gam, amount, readOk, writeOk),
                     readOk, writeOk)
           /\ deducts' = 0

\* a wrong answer in GamifiedQuiz; deducts counts the calls of a run that
\* began with MAX_HEARTS stored and that the store served
WrongAnswer ==
    \E readOk \in BOOLEAN, writeOk \in BOOLEAN :
        /\ Ledger("deductHeart", 0, deductHeart(gam, readOk, writeOk), readOk, writeOk)
        /\ deducts' = IF ~(readOk /\ writeOk) THEN 0
                      ELSE IF gam.exists /\ gam.hearts = MAX_HEARTS THEN 1
                      ELSE IF deducts >= 1 /\ deducts <= MAX_HEARTS THEN deducts + 1
                      ELSE 0

\* the day label changes (forward, or backward when the client clock is
\* set back); changed records that the record is stamped with another day
ClockChange ==
    \E d \in Days \ {today} :
        /\ today' = d
        /\ last' = Call("clock", d, TRUE, FALSE, 0, FALSE)
        /\ preGam' = gam
        /\ preEpoch' = epoch
        /\ epoch' = [changed |-> gam.exists /\ gam.last_activity_date # d,
                     resets |-> 0, faulted |-> FALSE]
        /\ deducts' = 0
        /\ UNCHANGED <<progress, preProgress, gam, saved, quiz, condition,
                       trackerVars, tabVars>>

NextLedger ==
    \/ Login
    \/ HomeLoad
    \/ ResetCheck
    \/ PlayCheck
    \/ StreakUpdate
    \/ XPAward
    \/ WrongAnswer
    \/ ClockChange

SpecLedger == Init /\ [][NextLedger]_vars

\* rows of user_gamification that updateStreak has branches for: a streak
\* of 0 and a missing last activity date are values no call of this code
\* stores, they come from rows written to the table by other means
SeededRows ==
    {NoGamRow} \cup
    {[exists |-> TRUE, xp |-> 0, hearts |-> MAX_HEARTS, streak_days |-> s,
      last_activity_date |-> d] : s \in 0..2, d \in {NoDate} \cup Days}

\* a page of a participant of condition c over any of these rows
InitSeeded(c) ==
    /\ gam \in SeededRows
    /\ today \in Days
    /\ progress = NoProgressRow
    /\ last = Call("none", 0, TRUE, FALSE, 0, FALSE)
    /\ preProgress = progress
    /\ preGam = gam
    /\ epoch = NoEpoch
    /\ preEpoch = NoEpoch
    /\ deducts = 0
    /\ saved = NoneSaved
    /\ tracker = NoTracker
    /\ page = [hidden |-> FALSE, auth |-> "out", loggingIn |-> FALSE,
               faulted |-> FALSE]
    /\ sessions = <<>>
    /\ pending = EmptyBag
    /\ now = 1
    /\ preTracker = tracker
    /\ tabs = [t \in Tabs |-> IdleTab]
    /\ clock = NoClock
    /\ quiz = NoQuiz
    /\ condition = c

InitStreak == InitSeeded("experimental")

NextStreak == StreakUpdate \/ ClockChange

SpecStreak == InitStreak /\ [][NextStreak]_vars

----------------------------------------------------------------------------
(* Quiz completion: Player.handleQuizComplete over both rows *)

Conditions == {"experimental", "control"}

InitQuiz == InitTab /\ condition \in Conditions

\* the store call of a handler that fails, in the order the handler makes
\* them, 0 when the store serves them all
FaultPlans == 0..9

Ok(plan, k) == plan # k

QuizUnchanged == UNCHANGED <<epoch, preEpoch, deducts, condition, trackerVars, tabVars>>

\* at most one store call of a behaviour fails
MayFail(ok) == ~ok => ~saved.faulted

\* AuthContext.login: initializeParticipantProgress, then checkStreakOnLogin
\* for a gamified participant; a throw of the latter is caught
LoginStore ==
    \E ok \in BOOLEAN :
        LET checked == checkStreakOnLogin(gam, today, ok, ok)
        IN /\ MayFail(ok)
           /\ progress' = initializeParticipantProgress(progress, ok)
           /\ gam' = IF isGamifiedVersion(condition) THEN checked.row ELSE gam
           /\ last' = Call("login", 0, ok, FALSE,
                           IF isGamifiedVersion(condition) THEN checked.writes ELSE 0,
                           FALSE)
           /\ preProgress' = progress
           /\ preGam' = gam
           /\ saved' = [saved EXCEPT !.faulted = @ \/ ~ok]
           /\ page' = [page EXCEPT !.auth = "in"]
           /\ UNCHANGED <<quiz, today, epoch, preEpoch, deducts, condition,
                          tracker, sessions, pending, now, preTracker, tabVars>>

\* Player.handleQuizComplete of a logged-in participant (participantId is
\* set) for a video the Player found unlocked:
\* saveQuizResult (call 1), markVideoCompleted (2, 3), and for a gamified
\* participant saveVideoStars (4, 5), addXP (6, 7), updateStreak (8, 9); a
\* throw of a call ends the handler; ret.plan is history: the call that
\* failed
HandleQuizComplete ==
    \E videoIndex \in 0..(NumUnits - 1), score \in QuizOutcomes, plan \in FaultPlans :
        LET videoId == allVideoIds[videoIndex + 1]
            gamified == isGamifiedVersion(condition)
            resultThrew == ~Ok(plan, 1)
            marked == markVideoCompleted(progress, Ok(plan, 2), Ok(plan, 3),
                                         videoId, score[1])
            markThrew == ~Ok(plan, 3)
            stars == calculateStars(score[1], score[2])
            starred == saveVideoStars(marked, Ok(plan, 4), Ok(plan, 5), videoId, stars)
            xpReward == calculateXP(score[1], score[2])
            awarded == addXP(gam, xpReward, Ok(plan, 6), Ok(plan, 7))
            streaked == AndThen(awarded,
                                updateStreak(awarded.row, today, Ok(plan, 8),
                                             Ok(plan, 9)))
            rewarded == gamified /\ ~resultThrew /\ ~markThrew
        IN /\ page.auth = "in"
           /\ isVideoUnlocked(progress, TRUE, videoIndex)
           /\ saved.results < MaxQuizzes
           /\ gamified \/ plan <= 3
           /\ MayFail(plan = 0)
           /\ progress' = IF resultThrew THEN progress
                           ELSE IF markThrew \/ ~gamified THEN marked
                           ELSE starred.row
           /\ gam' = IF rewarded THEN streaked.row ELSE gam
           /\ quiz' = score
           /\ last' = Call("handleQuizComplete", videoId, plan = 0,
                           [stars |-> stars, xp |-> xpReward,
                            starWrites |-> IF rewarded THEN starred.writes ELSE 0,
                            plan |-> plan],
                           IF rewarded THEN streaked.writes ELSE 0,
                           resultThrew \/ markThrew \/ (rewarded /\ streaked.threw))
           /\ preProgress' = progress
           /\ preGam' = gam
           /\ saved' = [scores |-> IF plan = 0 \/ plan >= 4
                                    THEN Passed(saved.scores, videoId, score[1])
                                    ELSE saved.scores,
                         stars |-> IF gamified /\ (plan = 0 \/ plan >= 6)
                                   THEN Passed(saved.stars, videoId, stars)
                                   ELSE saved.stars,
                         results |-> IF resultThrew THEN saved.results
                                     ELSE saved.results + 1,
                         faulted |-> saved.faulted \/ plan # 0]
           /\ UNCHANGED today
           /\ QuizUnchanged

\* a wrong answer of a gamified participant during the quiz, served by
\* the store
MissedAnswer ==
    /\ page.auth = "in"
    /\ isGamifiedVersion(condition)
    /\ gam.exists
    /\ gam.hearts > MAX_HEARTS - MaxWrong
    /\ gam' = deductHeart(gam, TRUE, TRUE).row
    /\ last' = Call("deductHeart", 0, TRUE, FALSE, 1, FALSE)
    /\ preProgress' = progress
    /\ preGam' = gam
    /\ UNCHANGED <<progress, saved, quiz, today>>
    /\ QuizUnchanged

\* the day label moves on to the next day
NextDay ==
    /\ today < MaxDay - 1
    /\ today' = today + 1
    /\ last' = Call("clock", today + 1, TRUE, FALSE, 0, FALSE)
    /\ preProgress' = progress
    /\ preGam' = gam
    /\ UNCHANGED <<progress, gam, saved, quiz>>
    /\ QuizUnchanged

NextQuiz ==
    \/ LoginStore
    \/ HandleQuizComplete
    \/ MissedAnswer
    \/ NextDay

SpecQuiz == InitQuiz /\ [][NextQuiz]_vars

\* a participant of the control condition, whatever row of
\* user_gamification the table holds for them
InitControl == InitSeeded("control")

NextControl == LoginStore \/ HandleQuizComplete \/ NextDay

SpecControl == InitControl /\ [][NextControl]_vars

----------------------------------------------------------------------------
(* Two tabs: Player.handleQuizComplete of a gamified participant in each   *)
(* tab, one step per store call; the store serves every call               *)

TabOutcomes == {<<9, 10>>, <<10, 10>>}

\* the row a handler holds in its locals after getUserProgress
RowRead(p) ==
    [exists |-> TRUE, completed_videos |-> p.completedVideos,
     video_scores |-> p.videoScores, video_stars |-> <<>>]

\* a step of tab t that leaves its Player as next
TabStep(op, t, next) ==
    /\ tabs' = [tabs EXCEPT ![t] = next]
    /\ last' = Call(op, t, TRUE, FALSE, 0, FALSE)
    /\ preProgress' = progress
    /\ preGam' = gam
    /\ UNCHANGED <<today, epoch, preEpoch, deducts, quiz, condition, tracker,
                   sessions, pending, now, preTracker, clock>>

\* AuthContext.login; the tabs share the participant of localStorage
TabsLogin ==
    /\ page.auth = "out"
    /\ progress' = initializeParticipantProgress(progress, TRUE)
    /\ gam' = checkStreakOnLogin(gam, today, TRUE, TRUE).row
    /\ page' = [page EXCEPT !.auth = "in"]
    /\ last' = Call("login", 0, TRUE, FALSE, 0, FALSE)
    /\ preProgress' = progress
    /\ preGam' = gam
    /\ UNCHANGED <<today, epoch, preEpoch, deducts, saved, quiz, condition, tracker,
                   sessions, pending, now, preTracker, tabVars>>

\* Player mounts on a video it finds unlocked
OpenPlayer(t) ==
    \E videoIndex \in 0..(NumUnits - 1) :
        /\ page.auth = "in"
        /\ tabs[t].pc = "idle"
        /\ tabs[t].runs < MaxRuns
        /\ isVideoUnlocked(progress, TRUE, videoIndex)
        /\ TabStep("open", t, [tabs[t] EXCEPT !.pc = "quiz",
                                              !.video = allVideoIds[videoIndex + 1]])
        /\ UNCHANGED <<progress, gam, saved, page>>

\* handleQuizComplete up to the select of markVideoCompleted: the insert of
\* saveQuizResult has returned, getUserProgress reads the row
QuizCompleted(t) ==
    \E score \in TabOutcomes :
        /\ tabs[t].pc = "quiz"
        /\ TabStep("getUserProgress", t,
                   [tabs[t] EXCEPT !.pc = "save", !.score = score,
                                   !.progress = getUserProgress(progress, TRUE)])
        /\ UNCHANGED <<progress, gam, saved, page>>

\* the upsert of saveUserProgress: what markVideoCompleted made of the row
\* it read
MarkWrite(t) ==
    LET tab == tabs[t]
    IN /\ tab.pc = "save"
       /\ progress' = saveUserProgress(progress,
                          MarkedProgress(RowRead(tab.progress), TRUE, tab.video,
                                         tab.score[1]))
       /\ saved' = [saved EXCEPT !.scores = Passed(@, tab.video, tab.score[1])]
       /\ TabStep("saveUserProgress", t,
                  [tab EXCEPT !.pc = "stars", !.progress = EmptyProgress])
       /\ UNCHANGED <<gam, page>>

\* the select of saveVideoStars; no update follows unless the stars are
\* above the ones read
StarsRead(t) ==
    LET tab == tabs[t]
        currentStars == IF progress.exists THEN progress.video_stars ELSE <<>>
        stars == calculateStars(tab.score[1], tab.score[2])
    IN /\ tab.pc = "stars"
       /\ TabStep("saveVideoStars", t,
                  IF saveVideoStars(progress, TRUE, TRUE, tab.video, stars).writes = 1
                  THEN [tab EXCEPT !.pc = "starsSave", !.stars = currentStars]
                  ELSE [tab EXCEPT !.pc = "xp"])
       /\ UNCHANGED <<progress, gam, saved, page>>

\* the update of saveVideoStars: video_stars as read, with the new stars
StarsWrite(t) ==
    LET tab == tabs[t]
        stars == calculateStars(tab.score[1], tab.score[2])
        held == [progress EXCEPT !.video_stars = tab.stars]
    IN /\ tab.pc = "starsSave"
       /\ progress' = [progress EXCEPT !.video_stars =
                          saveVideoStars(held, TRUE, TRUE, tab.video, stars).row.video_stars]
       /\ saved' = [saved EXCEPT !.stars = Passed(@, tab.video, stars)]
       /\ TabStep("updateVideoStars", t, [tab EXCEPT !.pc = "xp", !.stars = <<>>])
       /\ UNCHANGED <<gam, page>>

\* the select of addXP; no upsert follows when there is no record
XPRead(t) ==
    LET tab == tabs[t]
        current == getGamificationData(gam, TRUE)
    IN /\ tab.pc = "xp"
       /\ TabStep("addXP", t,
                  IF current.found
                  THEN [tab EXCEPT !.pc = "xpSave", !.xp = current.xp]
                  ELSE [tab EXCEPT !.pc = "streak"])
       /\ UNCHANGED <<progress, gam, saved, page>>

\* an upsert that adds the reward to the stored xp
XPWriteIncrement(t) ==
    LET tab == tabs[t]
        xpReward == calculateXP(tab.score[1], tab.score[2])
    IN /\ tab.pc = "xpSave"
       /\ gam' = updateGamificationData(gam, [xp |-> gam.xp + xpReward], TRUE).row
       /\ TabStep("updateXP", t, [tab EXCEPT !.pc = "streak", !.xp = 0])
       /\ UNCHANGED <<progress, saved, page>>

\* the upsert of addXP: the xp read plus the reward
XPWrite(t) ==
    LET tab == tabs[t]
        xpReward == calculateXP(tab.score[1], tab.score[2])
    IN /\ tab.pc = "xpSave"
       /\ gam' = updateGamificationData(gam, [xp |-> tab.xp + xpReward], TRUE).row
       /\ TabStep("updateXP", t, [tab EXCEPT !.pc = "streak", !.xp = 0])
       /\ UNCHANGED <<progress, saved, page>>

\* updateStreak, which on the day of the login reads and returns; the
\* handler ends
StreakRead(t) ==
    LET tab == tabs[t]
    IN /\ tab.pc = "streak"
       /\ gam' = updateStreak(gam, today, TRUE, TRUE).row
       /\ TabStep("updateStreak", t,
                  [IdleTab EXCEPT !.runs = tab.runs + 1])
       /\ UNCHANGED <<progress, saved, page>>

NextTabs ==
    \/ TabsLogin
    \/ \E t \in Tabs : OpenPlayer(t)
    \/ \E t \in Tabs : QuizCompleted(t)
    \/ \E t \in Tabs : MarkWrite(t)
    \/ \E t \in Tabs : StarsRead(t)
    \/ \E t \in Tabs : StarsWrite(t)
    \/ \E t \in Tabs : XPRead(t)
    \/ \E t \in Tabs : XPWrite(t)
    \/ \E t \in Tabs : StreakRead(t)

SpecTabs == Init /\ [][NextTabs]_vars

\* handleQuizComplete from the end of the quiz to the select of addXP:
\* markVideoCompleted and saveVideoStars, with no other tab's call on
\* user_progress between theirs
QuizToXP(t) ==
    \E score \in TabOutcomes :
        LET tab == tabs[t]
            stars == calculateStars(score[1], score[2])
            marked == markVideoCompleted(progress, TRUE, TRUE, tab.video, score[1])
        IN /\ tab.pc = "quiz"
           /\ progress' = saveVideoStars(marked, TRUE, TRUE, tab.video, stars).row
           /\ saved' = [saved EXCEPT !.scores = Passed(@, tab.video, score[1]),
                                     !.stars = Passed(@, tab.video, stars)]
           /\ TabStep("saveVideoStars", t, [tab EXCEPT !.pc = "xp", !.score = score])
           /\ UNCHANGED <<gam, page>>

\* two tabs whose calls on user_gamification interleave
NextTabsXP ==
    \/ TabsLogin
    \/ \E t \in Tabs : OpenPlayer(t)
    \/ \E t \in Tabs : QuizToXP(t)
    \/ \E t \in Tabs : XPRead(t)
    \/ \E t \in Tabs : XPWrite(t)
    \/ \E t \in Tabs : StreakRead(t)

SpecTabsXP == Init /\ [][NextTabsXP]_vars

----------------------------------------------------------------------------
(* Day label: getESTDate at an instant on a client in some zone *)

\* instants on the hour and at minute 59 of MaxHours hours from 1970-01-02
Instants ==
    {(1440 + (60 * h) + e) * MsPerMinute : h \in 0..(MaxHours - 1), e \in {0, 59}}

\* getTimezoneOffset() of clients at UTC+9, UTC, UTC-5 and UTC-8
Offsets == {0 - 540, 0, 300, 480}

ClockUnchanged ==
    UNCHANGED <<progress, gam, today, preProgress, preGam, epoch, preEpoch,
                deducts, saved, quiz, condition, trackerVars, tabs>>

\* the page runs at some instant on a client in some zone
ClockAt ==
    \E instant \in Instants, offset \in Offsets :
        /\ clock' = [instant |-> instant, offset |-> offset]
        /\ last' = Call("clock", 0, TRUE, FALSE, 0, FALSE)
        /\ ClockUnchanged

\* const todayEST = getESTDate()
GetESTDate ==
    /\ clock # NoClock
    /\ last' = Call("getESTDate", 0, TRUE, getESTDate(clock.instant, clock.offset),
                    0, FALSE)
    /\ UNCHANGED clock
    /\ ClockUnchanged

NextClock == ClockAt \/ GetESTDate

SpecClock == Init /\ [][NextClock]_vars

----------------------------------------------------------------------------
(* Scoring: the pure functions of a quiz outcome *)

\* score.correct, score.total of a quiz: 0 <= correct <= total
QuizInputs == {q \in (0..MaxTotal) \X (0..MaxTotal) : q[1] <= q[2]}

InitScoring ==
    /\ InitStore
    /\ quiz \in QuizInputs
    /\ condition = "experimental"

ScoringUnchanged ==
    UNCHANGED <<progress, gam, today, preProgress, preGam, epoch, preEpoch,
                deducts, saved, quiz, condition, trackerVars, tabVars>>

\* handleQuizComplete: const stars = calculateStars(score.correct, score.total)
CalculateStars ==
    /\ last' = Call("calculateStars", quiz, TRUE, calculateStars(quiz[1], quiz[2]),
                    0, FALSE)
    /\ ScoringUnchanged

\* handleQuizComplete: const xp = calculateXP(score.correct, score.total)
CalculateXP ==
    /\ last' = Call("calculateXP", quiz, TRUE, calculateXP(quiz[1], quiz[2]),
                    0, FALSE)
    /\ ScoringUnchanged

NextScoring == CalculateStars \/ CalculateXP

SpecScoring == InitScoring /\ [][NextScoring]_vars

----------------------------------------------------------------------------
(* Session tracker: the callbacks of one tab, each store call a point where *)
(* the callback is suspended and others run                                *)

OthersUnchanged ==
    UNCHANGED <<progress, gam, today, preProgress, preGam, epoch, preEpoch,
                deducts, saved, quiz, condition, tabVars>>

\* history of a step of the tracker: ret tells how many rows it created
\* and whether it changed a column of a row
Track(op, arg, ok, writes) ==
    /\ last' = Call(op, arg, ok,
                    [created |-> Len(sessions') - Len(sessions),
                     changed |-> \E i \in 1..Len(sessions) :
                                    Columns(sessions')[i] # Columns(sessions)[i]],
                    writes, FALSE)
    /\ preTracker' = tracker
    /\ OthersUnchanged

InFlight == BagToSet(pending)

Room(calls) == BagCardinality(pending) + Cardinality(calls) <= MaxPending

InsertRoom ==
    LET inserts == {call \in InFlight : call.op = "insert"}
    IN /\ BagCardinality(pending) < MaxPending
       /\ Len(sessions) + BagCardinality([call \in inserts |-> pending[call]])
              < MaxSessions

\* AuthContext.login up to its first await: setParticipantId makes the page
\* a logged-in one; the store calls of initializeParticipantProgress and
\* checkStreakOnLogin are in flight
LoginBegin ==
    /\ page.auth = "out"
    /\ ~page.loggingIn
    /\ page' = [page EXCEPT !.auth = "in", !.loggingIn = TRUE]
    /\ UNCHANGED <<tracker, sessions, pending, now>>
    /\ Track("login", "begin", TRUE, 0)

\* AuthContext.login from the return of those calls to the await in
\* startSession
InitializeTracking ==
    /\ page.loggingIn
    /\ InsertRoom
    /\ tracker' = startSessionIssue(tracker)
    /\ pending' = pending (+) SetToBag({InsertCall("initializeTracking", now, FALSE)})
    /\ page' = [page EXCEPT !.loggingIn = FALSE]
    /\ UNCHANGED <<sessions, now>>
    /\ Track("startSession", "login", TRUE, 1)

\* handleVisibilityChange, document.hidden false
TabVisible ==
    /\ tracker.trackingInitialized
    /\ page.hidden
    /\ page' = [page EXCEPT !.hidden = FALSE]
    /\ UNCHANGED <<sessions, now>>
    /\ IF tracker.currentParticipantId # Null
       THEN /\ InsertRoom
            /\ tracker' = startSessionIssue(tracker)
            /\ pending' = pending (+)
                              SetToBag({InsertCall("startSession", now,
                                                   page.auth = "out")})
            /\ Track("visible", "startSession", TRUE, 1)
       ELSE /\ UNCHANGED <<tracker, pending>>
            /\ Track("visible", "none", TRUE, 0)

\* handleVisibilityChange, document.hidden true: endSession('tab_hidden') up
\* to its await
TabHidden ==
    LET calls == endSessionCalls(tracker, "tab_hidden", now, "endSession")
    IN /\ tracker.trackingInitialized
       /\ ~page.hidden
       /\ Room(calls)
       /\ page' = [page EXCEPT !.hidden = TRUE]
       /\ pending' = pending (+) SetToBag(calls)
       /\ sessions' = MarkIssued(sessions, calls)
       /\ UNCHANGED <<tracker, now>>
       /\ Track("endSession", "tab_hidden", TRUE, Cardinality(calls))

\* endSessionSync(reason) run by a listener
Unloading(reason) ==
    LET calls == endSessionCalls(tracker, reason, now, "endSessionSync")
    IN /\ Room(calls)
       /\ tracker' = endSessionSync(tracker)
       /\ pending' = pending (+) SetToBag(calls)
       /\ sessions' = MarkIssued(sessions, calls)
       /\ UNCHANGED <<page, now>>
       /\ Track("endSessionSync", reason, TRUE, Cardinality(calls))

\* handleBeforeUnload
BeforeUnload ==
    /\ tracker.trackingInitialized
    /\ Unloading("page_unload")

\* handlePageHide
PageHide ==
    /\ tracker.trackingInitialized
    /\ Unloading("page_hide")

\* AuthContext.logout: cleanupTracking up to the await in endSession, or to
\* its end when endSession returns at once
Logout ==
    LET calls == endSessionCalls(tracker, "logout", now, "cleanupTracking")
    IN /\ page.auth = "in"
       /\ \A call \in InFlight : call.caller # "cleanupTracking"
       /\ Room(calls)
       /\ pending' = pending (+) SetToBag(calls)
       /\ sessions' = MarkIssued(sessions, calls)
       /\ IF calls = {}
          THEN /\ tracker' = cleanupTrackingReturn(tracker)
               /\ page' = [page EXCEPT !.auth = "out"]
          ELSE UNCHANGED <<tracker, page>>
       /\ UNCHANGED now
       /\ Track("cleanupTracking", "logout", TRUE, Cardinality(calls))

\* the insert of a startSession returns: a row and its id, or an error;
\* initializeTracking then registers the listeners
InsertReturn ==
    \E call \in InFlight, ok \in BOOLEAN :
        LET id == Len(sessions) + 1
            started == startSessionReturn(tracker, ok, id, now)
        IN /\ call.op = "insert"
           /\ sessions' = IF ok
                           THEN Append(sessions,
                                    SessionRow(call, \E j \in 1..Len(sessions) :
                                                         ~sessions[j].closeIssued))
                           ELSE sessions
           /\ tracker' = IF call.caller = "initializeTracking"
                          THEN [started EXCEPT !.trackingInitialized = TRUE]
                          ELSE started
           /\ pending' = pending (-) SetToBag({call})
           /\ page' = [page EXCEPT !.faulted = @ \/ ~ok]
           /\ UNCHANGED now
           /\ Track("startSessionReturn", call.caller, ok, 0)

\* the update of an endSession returns and endSession (then cleanupTracking,
\* then logout) runs on
UpdateReturn ==
    \E call \in InFlight, ok \in BOOLEAN :
        /\ call.op = "update"
        /\ call.caller # "endSessionSync"
        /\ sessions' = IF ok THEN Updated(sessions, call) ELSE sessions
        /\ tracker' = IF call.caller = "cleanupTracking"
                       THEN cleanupTrackingReturn(endSessionReturn(tracker))
                       ELSE endSessionReturn(tracker)
        /\ pending' = pending (-) SetToBag({call})
        /\ page' = [page EXCEPT !.faulted = @ \/ ~ok,
                                 !.auth = IF call.caller = "cleanupTracking"
                                          THEN "out" ELSE @]
        /\ UNCHANGED now
        /\ Track("endSessionReturn",
                 [id |-> call.id, ended_reason |-> call.ended_reason], ok, 0)

\* the update endSessionSync built and did not await reaches the store, or
\* never does
UnawaitedUpdate ==
    \E call \in InFlight, sent \in BOOLEAN :
        /\ call.op = "update"
        /\ call.caller = "endSessionSync"
        /\ sessions' = IF sent THEN Updated(sessions, call) ELSE sessions
        /\ pending' = pending (-) SetToBag({call})
        /\ UNCHANGED <<tracker, page, now>>
        /\ Track("endSessionSyncUpdate",
                 [id |-> call.id, ended_reason |-> call.ended_reason], sent, 0)

\* time passes
Tick ==
    /\ now < MaxTime
    /\ now' = now + 1
    /\ UNCHANGED <<tracker, page, sessions, pending>>
    /\ Track("tick", now, TRUE, 0)

NextSession ==
    \/ LoginBegin
    \/ InitializeTracking
    \/ TabVisible
    \/ TabHidden
    \/ BeforeUnload
    \/ PageHide
    \/ Logout
    \/ InsertReturn
    \/ UpdateReturn
    \/ UnawaitedUpdate

\* the callbacks at one instant
SpecSession == Init /\ [][NextSession]_vars

NextSessionClock == NextSession \/ Tick

\* the callbacks with time passing between their steps
SpecSessionClock == Init /\ [][NextSessionClock]_vars

\* the update of an endSession reaches the store, which applies or fails
\* it; the response is on its way and endSession still awaits it
UpdateLands ==
    \E call \in InFlight, ok \in BOOLEAN :
        /\ call.op = "update"
        /\ call.caller # "endSessionSync"
        /\ sessions' = IF ok THEN Updated(sessions, call) ELSE sessions
        /\ pending' = (pending (-) SetToBag({call})) (+)
                          SetToBag({[call EXCEPT !.op = IF ok THEN "updated"
                                                        ELSE "failed"]})
        /\ UNCHANGED <<tracker, page, now>>
        /\ Track("endSessionUpdate",
                 [id |-> call.id, ended_reason |-> call.ended_reason], ok, 0)

\* the response arrives and endSession (then cleanupTracking, then logout)
\* runs on
UpdateResponse ==
    \E call \in InFlight :
        /\ call.op \in {"updated", "failed"}
        /\ tracker' = IF call.caller = "cleanupTracking"
                       THEN cleanupTrackingReturn(endSessionReturn(tracker))
                       ELSE endSessionReturn(tracker)
        /\ pending' = pending (-) SetToBag({call})
        /\ page' = [page EXCEPT !.faulted = @ \/ call.op = "failed",
                                 !.auth = IF call.caller = "cleanupTracking"
                                          THEN "out" ELSE @]
        /\ UNCHANGED <<sessions, now>>
        /\ Track("endSessionReturn",
                 [id |-> call.id, ended_reason |-> call.ended_reason],
                 call.op = "updated", 0)

\* the row createVideoRun and trackEvent insert: session_id is
\* currentSessionId as the call finds it, null without a session
TaggedRow(tr) ==
    [participant_id |-> Participant,
     session_id |-> IF tr.currentSessionId = Null THEN Absent
                    ELSE tr.currentSessionId]

\* a component of the logged-in participant calls op, whose insert the
\* store serves at once or fails
Insert(op) ==
    \E ok \in BOOLEAN :
        /\ page.auth = "in"
        /\ last' = Call(op, 0, ok, TaggedRow(tracker), 1, FALSE)
        /\ preTracker' = tracker
        /\ UNCHANGED <<tracker, page, sessions, pending, now>>
        /\ OthersUnchanged

CreateVideoRun ==
    /\ tracker.trackingInitialized
    /\ Insert("createVideoRun")

TrackEvent ==
    /\ tracker.trackingInitialized
    /\ Insert("trackEvent")

NextSessionRows ==
    \/ LoginBegin
    \/ InitializeTracking
    \/ TabVisible
    \/ TabHidden
    \/ BeforeUnload
    \/ PageHide
    \/ Logout
    \/ InsertReturn
    \/ UpdateLands
    \/ UpdateResponse
    \/ UnawaitedUpdate
    \/ CreateVideoRun
    \/ TrackEvent

\* the callbacks and the components that write video_runs and events
SpecSessionRows == Init /\ [][NextSessionRows]_vars

----------------------------------------------------------------------------
(* Session tracker, each callback running to completion before the next:   *)
(* a store call returns, served or failed, before another callback starts  *)

\* startSession from call to return
StartRun(caller, ok) ==
    LET call == InsertCall(caller, now, page.auth = "out")
    IN /\ Len(sessions) < MaxSessions
       /\ sessions' = IF ok
                       THEN Append(sessions,
                                SessionRow(call, \E j \in 1..Len(sessions) :
                                                     ~sessions[j].closeIssued))
                       ELSE sessions
       /\ tracker' = LET started == startSessionReturn(startSessionIssue(tracker),
                                                       ok, Len(sessions) + 1, now)
                      IN IF caller = "initializeTracking"
                         THEN [started EXCEPT !.trackingInitialized = TRUE]
                         ELSE started

\* endSession from call to return, then after(tracker) of its caller
EndRun(reason, caller, ok) ==
    LET calls == endSessionCalls(tracker, reason, now, caller)
    IN /\ sessions' = IF calls = {} \/ ~ok THEN MarkIssued(sessions, calls)
                       ELSE Updated(MarkIssued(sessions, calls),
                                    CHOOSE call \in calls : TRUE)
       /\ tracker' = LET ended == IF calls = {} THEN tracker
                                   ELSE endSessionReturn(tracker)
                      IN IF caller = "cleanupTracking"
                         THEN cleanupTrackingReturn(ended)
                         ELSE IF caller = "endSessionSync"
                              THEN endSessionSync(tracker)
                              ELSE ended
       /\ last' = Call(caller, reason, ok,
                       [created |-> 0,
                        changed |-> Columns(sessions') # Columns(sessions)],
                       Cardinality(calls), FALSE)
       /\ preTracker' = tracker
       /\ OthersUnchanged

\* AuthContext.login
LoginRun ==
    \E ok \in BOOLEAN :
        /\ page.auth = "out"
        /\ StartRun("initializeTracking", ok)
        /\ page' = [page EXCEPT !.auth = "in", !.faulted = @ \/ ~ok]
        /\ UNCHANGED <<pending, now>>
        /\ Track("startSession", "login", ok, 1)

\* handleVisibilityChange, document.hidden false
TabVisibleRun ==
    \E ok \in BOOLEAN :
        /\ tracker.trackingInitialized
        /\ page.hidden
        /\ UNCHANGED <<pending, now>>
        /\ IF tracker.currentParticipantId # Null
           THEN /\ StartRun("startSession", ok)
                /\ page' = [page EXCEPT !.hidden = FALSE, !.faulted = @ \/ ~ok]
                /\ Track("visible", "startSession", ok, 1)
           ELSE /\ ok
                /\ page' = [page EXCEPT !.hidden = FALSE]
                /\ UNCHANGED <<tracker, sessions>>
                /\ Track("visible", "none", TRUE, 0)

\* handleVisibilityChange, document.hidden true
TabHiddenRun ==
    \E ok \in BOOLEAN :
        /\ tracker.trackingInitialized
        /\ ~page.hidden
        /\ (tracker.currentSessionId = Null => ok)
        /\ page' = [page EXCEPT !.hidden = TRUE, !.faulted = @ \/ ~ok]
        /\ UNCHANGED <<pending, now>>
        /\ EndRun("tab_hidden", "endSession", ok)

\* AuthContext.logout
LogoutRun ==
    \E ok \in BOOLEAN :
        /\ page.auth = "in"
        /\ (tracker.currentSessionId = Null => ok)
        /\ page' = [page EXCEPT !.auth = "out", !.faulted = @ \/ ~ok]
        /\ UNCHANGED <<pending, now>>
        /\ EndRun("logout", "cleanupTracking", ok)

\* handleBeforeUnload; the update endSessionSync does not await reaches
\* the store before the next callback, or never
BeforeUnloadRun ==
    \E sent \in BOOLEAN :
        /\ tracker.trackingInitialized
        /\ (tracker.currentSessionId = Null => sent)
        /\ UNCHANGED <<page, pending, now>>
        /\ EndRun("page_unload", "endSessionSync", sent)

\* handlePageHide
PageHideRun ==
    \E sent \in BOOLEAN :
        /\ tracker.trackingInitialized
        /\ (tracker.currentSessionId = Null => sent)
        /\ UNCHANGED <<page, pending, now>>
        /\ EndRun("page_hide", "endSessionSync", sent)

NextSessionSerial ==
    \/ LoginRun
    \/ TabVisibleRun
    \/ TabHiddenRun
    \/ LogoutRun
    \/ BeforeUnloadRun
    \/ PageHideRun

SpecSessionSerial == Init /\ [][NextSessionSerial]_vars

----------------------------------------------------------------------------
(* Properties of the unlock gate (SpecUnlock) *)

Served(op) == last.op = op /\ last.ok

(* C1: at an index i with 0 < i < N, when the store serves the progress    *)
(* read, isVideoUnlocked returns true iff allVideoIds[i-1] is among the    *)
(* stored completed videos; with none completed every such index is locked *)
UnlockedIffPreviousCompleted ==
    (Served("isVideoUnlocked") /\ last.arg > 0 /\ last.arg < NumUnits) =>
        /\ last.ret = Includes(progress.completed_videos, allVideoIds[last.arg])
        /\ (Len(progress.completed_videos) = 0 => ~last.ret)

\* the last unit was found unlocked while it is itself not completed
UnlockedByPreviousReached ==
    /\ Served("isVideoUnlocked")
    /\ last.arg = NumUnits - 1
    /\ last.ret
    /\ ~Includes(progress.completed_videos, allVideoIds[NumUnits])

(* C2: isVideoUnlocked at index 0 returns true whatever the progress row   *)
(* holds, also when there is no row and when the read fails                *)
FirstVideoAlwaysUnlocked ==
    (last.op = "isVideoUnlocked" /\ last.arg = 0) => last.ret

\* index 0 was queried with no row stored and the read failing
FirstVideoFailedReadReached ==
    /\ last.op = "isVideoUnlocked"
    /\ last.arg = 0
    /\ ~last.ok
    /\ ~progress.exists
    /\ last.ret

----------------------------------------------------------------------------
(* C19: with the store serving every call, the stored best score of a unit *)
(* is the largest score handed to markVideoCompleted for it, and            *)
(* getVideoScore returns that score for every completed unit, also for a   *)
(* unit whose only completion had 0 correct                                *)
BestScoreIsMaxPassed ==
    ~saved.faulted =>
        /\ \A v \in DOMAIN saved.scores :
               /\ Includes(progress.completed_videos, v)
               /\ Stored(progress.video_scores, v) = saved.scores[v]
        /\ (Served("getVideoScore") /\ last.arg \in DOMAIN saved.scores) =>
               last.ret = saved.scores[last.arg]

(* C26: when the read of the progress row fails, isVideoUnlocked returns   *)
(* false at every index but 0 and true at 0, getVideoScore returns null,   *)
(* and neither throws                                                      *)
FailedReadDegrades ==
    /\ (last.op = "isVideoUnlocked" /\ ~last.ok) =>
           /\ last.ret = (last.arg = 0)
           /\ ~last.threw
    /\ (last.op = "getVideoScore" /\ ~last.ok) =>
           /\ last.ret = Absent
           /\ ~last.threw

\* a unit whose predecessor is completed was reported locked on a failed read
FailedReadLocksReached ==
    /\ last.op = "isVideoUnlocked" /\ ~last.ok
    /\ last.arg = 1
    /\ Includes(progress.completed_videos, allVideoIds[1])
    /\ ~last.ret

OutOfRange(videoIndex) == videoIndex < 0 \/ videoIndex >= NumUnits

MarkNeverShrinks ==
    (last.op = "markVideoCompleted" /\ ~last.threw) =>
        /\ \A v \in VideoIds :
               Includes(preProgress.completed_videos, v)
                   => Includes(progress.completed_videos, v)
        /\ Includes(progress.completed_videos, last.arg)
        /\ \A k \in DOMAIN preProgress.video_scores :
               /\ k \in DOMAIN progress.video_scores
               /\ progress.video_scores[k] >= preProgress.video_scores[k]

----------------------------------------------------------------------------
(* Properties of the ledger (SpecLedger) *)

(* C3: with the store serving every call, hearts is set to MAX_HEARTS      *)
(* exactly once for each day-label change the participant is active in:    *)
(* never more than once on the new label, and once the record is stamped   *)
(* with the new label the reset has happened                               *)
HeartsResetOncePerDay ==
    (epoch.changed /\ ~epoch.faulted) =>
        /\ epoch.resets <= 1
        /\ (gam.last_activity_date = today => epoch.resets = 1)

(* C4: after a day-label change and a first reset of hearts, a further     *)
(* checkAndResetDailyHearts on the same day label issues no write and      *)
(* leaves hearts as they are                                               *)
SecondResetCheckIsNoOp ==
    (Served("checkAndResetDailyHearts") /\ preEpoch.changed /\ ~preEpoch.faulted
        /\ preEpoch.resets >= 1) =>
        /\ last.writes = 0
        /\ gam.hearts = preGam.hearts

(* C5: with the store serving every call of the day, hearts is never       *)
(* negative, 21 deductions in a row from 20 leave 0, and a deduction at 0  *)
(* leaves 0                                                                *)
DeductionsEndAtZero ==
    ~epoch.faulted =>
        /\ gam.hearts >= 0
        /\ (deducts = MAX_HEARTS + 1 => gam.hearts = 0)
        /\ (Served("deductHeart") /\ preGam.exists /\ preGam.hearts = 0)
               => gam.hearts = 0

(* C6: with the store serving every call of the day, canUserPlay on an     *)
(* existing record returns true iff the stored hearts, after its reset     *)
(* check, are above 0; with hearts 0 and lastActivityDate today it returns *)
(* false                                                                   *)
CanPlayIffHeartsLeft ==
    (Served("canUserPlay") /\ ~epoch.faulted /\ preGam.exists) =>
        (last.ret <=> gam.hearts > 0)

(* C7: checkStreakOnLogin with no record stored creates xp 0, hearts 20,   *)
(* streak 1 and lastActivityDate today                                     *)
LoginCreatesBaseline ==
    (Served("checkStreakOnLogin") /\ ~preGam.exists) =>
        gam = [exists |-> TRUE, xp |-> 0, hearts |-> MAX_HEARTS,
               streak_days |-> 1, last_activity_date |-> today]

\* a login found no record and left one
FirstLoginReached ==
    Served("checkStreakOnLogin") /\ ~preGam.exists /\ gam.exists

(* C8: checkStreakOnLogin or updateStreak on the day label the record is   *)
(* stamped with, the streak being 1 or more, leaves streak and             *)
(* lastActivityDate as they are and issues no write                        *)
SameDayStreakUnchanged ==
    ((Served("updateStreak") \/ Served("checkStreakOnLogin"))
        /\ preGam.exists /\ preGam.streak_days >= 1
        /\ preGam.last_activity_date = today) =>
        /\ gam.streak_days = preGam.streak_days
        /\ gam.last_activity_date = preGam.last_activity_date
        /\ last.writes = 0

\* a second updateStreak on the day of a streak of 2
SameDayStreakReached ==
    /\ Served("updateStreak")
    /\ preGam.exists /\ preGam.streak_days = 2
    /\ preGam.last_activity_date = today

(* C9: updateStreak one day after lastActivityDate, the streak being       *)
(* s >= 1, stores streak s + 1 and lastActivityDate today                  *)
NextDayStreakIncrements ==
    (Served("updateStreak") /\ preGam.exists /\ preGam.streak_days >= 1
        /\ preGam.last_activity_date # NoDate
        /\ today = preGam.last_activity_date + 1) =>
        /\ gam.streak_days = preGam.streak_days + 1
        /\ gam.last_activity_date = today

\* a streak of 2 became 3 on the next day
NextDayStreakReached ==
    /\ Served("updateStreak")
    /\ preGam.exists /\ preGam.streak_days = 2
    /\ today = preGam.last_activity_date + 1
    /\ gam.streak_days = 3

(* C10: updateStreak two or more days after lastActivityDate, or on a day  *)
(* before it, stores streak 1 and lastActivityDate today                   *)
BrokenStreakResets ==
    (Served("updateStreak") /\ preGam.exists /\ preGam.streak_days >= 1
        /\ preGam.last_activity_date # NoDate
        /\ (today >= preGam.last_activity_date + 2
            \/ today < preGam.last_activity_date)) =>
        /\ gam.streak_days = 1
        /\ gam.last_activity_date = today

\* a streak of 2 was broken by a day label before the stamped one
SkewedStreakReached ==
    /\ Served("updateStreak")
    /\ preGam.exists /\ preGam.streak_days = 2
    /\ today < preGam.last_activity_date
    /\ gam.streak_days = 1

\* the calls of the ledger that write the record
LedgerWrites ==
    {"addXP", "deductHeart", "checkAndResetDailyHearts", "updateStreak",
     "checkStreakOnLogin"}

(* C21: the stored xp is never negative, and no addXP, deductHeart,        *)
(* checkAndResetDailyHearts, updateStreak or checkStreakOnLogin of the tab *)
(* leaves it lower than it found it                                        *)
XPNeverDecreases ==
    /\ gam.xp >= 0
    /\ last.op \in LedgerWrites => gam.xp >= preGam.xp

(* C22: the stored hearts are in 0..MAX_HEARTS after every sequence of     *)
(* calls of the ledger, whether or not the store served them               *)
HeartsInRange ==
    gam.exists => gam.hearts \in 0..MAX_HEARTS

\* a deduction at the lower end of the range: stored hearts 1 became 0
LastHeartDeducted ==
    /\ Served("deductHeart")
    /\ preGam.exists /\ preGam.hearts = 1
    /\ gam.hearts = 0

(* C29: canUserPlay for a participant without a record returns true,      *)
(* creates no record and issues no write                                   *)
AbsentRecordMayPlay ==
    (Served("canUserPlay") /\ ~preGam.exists) =>
        /\ last.ret = TRUE
        /\ ~gam.exists
        /\ gam = preGam
        /\ last.writes = 0

\* canUserPlay was called before any record was created
AbsentRecordPlayReached ==
    /\ Served("canUserPlay")
    /\ ~preGam.exists
    /\ last.ret = TRUE

(* C24: addXP, deductHeart, checkAndResetDailyHearts and updateStreak that *)
(* the store fails return without throwing to their caller                 *)
LedgerFailuresAreSwallowed ==
    (last.op \in {"addXP", "deductHeart", "checkAndResetDailyHearts", "updateStreak"}
        /\ ~last.ok) => ~last.threw

(* C32: updateStreak on an existing record leaves the stored xp and hearts *)
(* as they were, and when the store fails its read it leaves streak_days   *)
(* as it was too: the baseline is written only when there is no record     *)
BaselineOnlyWhenAbsent ==
    (last.op = "updateStreak" /\ preGam.exists) =>
        /\ gam.xp = preGam.xp
        /\ gam.hearts = preGam.hearts
        /\ ~last.ok => gam.streak_days = preGam.streak_days

(* C34: a login (checkStreakOnLogin, or the load of GamifiedHome) the      *)
(* store serves on a day label other than the stored last activity date    *)
(* ends with hearts = MAX_HEARTS, the streak one more when the stored date *)
(* is the day before and 1 otherwise, and the record stamped with today;   *)
(* a checkAndResetDailyHearts that follows it on that day label writes     *)
(* nothing                                                                 *)
LoginResetsBeforeStreak ==
    /\ [](((last.op \in {"checkStreakOnLogin", "loadGamification"}) /\ last.ok
             /\ preGam.last_activity_date # today) =>
               /\ gam.exists
               /\ gam.hearts = MAX_HEARTS
               /\ gam.last_activity_date = today
               /\ gam.streak_days =
                      IF preGam.exists /\ preGam.streak_days # 0
                           /\ preGam.last_activity_date # NoDate
                           /\ today - preGam.last_activity_date = 1
                      THEN preGam.streak_days + 1
                      ELSE 1)
    /\ [][((last.op \in {"checkStreakOnLogin", "loadGamification"}) /\ last.ok
             /\ last'.op = "checkAndResetDailyHearts" /\ last'.ok) =>
               /\ last'.writes = 0
               /\ gam' = gam]_vars

\* a login on the day after the last activity refilled the hearts and
\* raised the streak
LoginOnNextDayReached ==
    /\ Served("checkStreakOnLogin")
    /\ preGam.exists /\ preGam.hearts < MAX_HEARTS
    /\ today - preGam.last_activity_date = 1
    /\ gam.hearts = MAX_HEARTS
    /\ gam.streak_days = preGam.streak_days + 1

(* C35: after every updateStreak that returns without throwing, whichever  *)
(* branch it took (no record, streak_days 0, no last activity date, same   *)
(* day, next day, any other day), the stored last activity date is today   *)
(* and the stored streak is at least 1                                     *)
StreakStampedAndPositive ==
    (last.op = "updateStreak" /\ ~last.threw) =>
        /\ gam.exists
        /\ gam.last_activity_date = today
        /\ gam.streak_days >= 1

\* a record with a streak of 0 stamped today was raised to 1
ZeroStreakSameDayReached ==
    /\ Served("updateStreak")
    /\ preGam.exists /\ preGam.streak_days = 0
    /\ preGam.last_activity_date = today
    /\ gam.streak_days = 1

----------------------------------------------------------------------------
(* Properties of the session tracker (SpecSession) *)

OpenSessions == {i \in 1..Len(sessions) : sessions[i].ended_at = Absent}

(* C11: with the store serving every call, when the update of an           *)
(* endSession(reason) has returned, the session it closed is one row, with *)
(* ended_at set, ended_reason = reason and duration_ms = ended_at -        *)
(* started_at, not below 0; the call created no row                        *)
ClosedSessionRecordsItsSpan ==
    (last.op = "endSessionReturn" /\ last.ok /\ ~page.faulted) =>
        LET r == sessions[last.arg.id]
        IN /\ r.ended_at # Absent
           /\ r.ended_reason = last.arg.ended_reason
           /\ r.duration_ms = r.ended_at - r.started_at
           /\ r.duration_ms >= 0
           /\ last.ret.created = 0

(* C12: endSession and endSessionSync without a current session create and *)
(* change no row, issue no store call and leave the tracker as it was      *)
EndWithoutSessionIsNoOp ==
    (last.op \in {"endSession", "endSessionSync"}
        /\ preTracker.currentSessionId = Null) =>
        /\ last.ret.created = 0
        /\ ~last.ret.changed
        /\ tracker = preTracker
        /\ last.writes = 0

\* the tab was hidden with no current session, the session having been
\* given up by endSessionSync, whose update never reached the store
EndWithoutSessionReached ==
    /\ last.op = "endSession"
    /\ preTracker.currentSessionId = Null
    /\ OpenSessions # {}
    /\ InFlight = {}

\* the open rows no update in flight is about to close
LeftOpen == {i \in OpenSessions : \A call \in InFlight : call.id # i}

(* C13: with the store serving every call, under every interleaving of the *)
(* tab's callbacks the sessions table holds at most one row without        *)
(* ended_at, even when the rows whose closing update is in flight are not  *)
(* counted                                                                 *)
AtMostOneOpenSession ==
    ~page.faulted => Cardinality(LeftOpen) <= 1

(* C14: with the store serving every call, whenever startSession creates a *)
(* row, an update closing each row the tab created before it has already   *)
(* been issued                                                             *)
CloseIssuedBeforeNextOpen ==
    ~page.faulted => \A i \in 1..Len(sessions) : ~sessions[i].afterUnissued

(* C15: once logout has completed and until the next login begins, the     *)
(* cached identity is null, and no tab-visible event in that time issues   *)
(* an insert or creates a row                                              *)
LoggedOutStartsNoSession ==
    /\ page.auth = "out" => tracker.currentParticipantId = Null
    /\ \A call \in InFlight : ~call.late
    /\ \A i \in 1..Len(sessions) : ~sessions[i].late

(* C38: whenever the tracker has no current session and no store call of   *)
(* the tab is in flight, no row of the sessions table is without ended_at  *)
NoSessionLeftOpen ==
    (tracker.currentSessionId = Null /\ InFlight = {}) => OpenSessions = {}

(* C39: a row that createVideoRun or trackEvent inserts carries the        *)
(* tracker's current session, null when there is none, and a session it    *)
(* carries is a row of the same participant that has no ended_at when the  *)
(* row is inserted                                                         *)
RowsCarryOpenSession ==
    (last.op \in {"createVideoRun", "trackEvent"} /\ last.ok) =>
        /\ last.ret.session_id =
               (IF preTracker.currentSessionId = Null THEN Absent
                ELSE preTracker.currentSessionId)
        /\ last.ret.session_id # Absent =>
               /\ last.ret.session_id \in 1..Len(sessions)
               /\ sessions[last.ret.session_id].participant_id =
                      last.ret.participant_id
               /\ sessions[last.ret.session_id].ended_at = Absent

----------------------------------------------------------------------------
(* Properties of the scoring functions (SpecScoring) *)

(* C16: for 0 <= correct <= total, calculateStars is 3 when correct = 10   *)
(* and total = 10, else 2 when 7 <= correct <= 9, else 1; 0 correct gives  *)
(* 1 and the result is always in 1..3                                      *)
StarsByCorrectCount ==
    last.op = "calculateStars" =>
        LET correct == last.arg[1]
            total == last.arg[2]
        IN /\ last.ret \in 1..3
           /\ (correct = 10 /\ total = 10) => last.ret = 3
           /\ (~(correct = 10 /\ total = 10) /\ correct >= 7 /\ correct <= 9)
                  => last.ret = 2
           /\ (~(correct = 10 /\ total = 10) /\ ~(correct >= 7 /\ correct <= 9))
                  => last.ret = 1
           /\ correct = 0 => last.ret = 1

\* 10 correct of 11 scored 1 star
TenOfElevenReached ==
    /\ last.op = "calculateStars"
    /\ last.arg = <<10, 11>>
    /\ last.ret = 1

(* C17: calculateXP is correct * 5, plus 10 when correct >= 8, plus 20     *)
(* when correct = 10 and total = 10: 80 for 10 of 10, 50 for 8 of 10, 25   *)
(* for 5 of 10                                                             *)
XPByCorrectCount ==
    last.op = "calculateXP" =>
        LET correct == last.arg[1]
            total == last.arg[2]
            base == correct * 5
            bonus == IF correct >= 8 THEN 10 ELSE 0
            perfect == IF correct = 10 /\ total = 10 THEN 20 ELSE 0
        IN /\ last.ret = base + bonus + perfect
           /\ last.arg = <<10, 10>> => last.ret = 80
           /\ last.arg = <<8, 10>> => last.ret = 50
           /\ last.arg = <<5, 10>> => last.ret = 25
           /\ last.arg = <<7, 10>> => last.ret = 35

\* the xp of a perfect quiz
PerfectXPReached ==
    /\ last.op = "calculateXP"
    /\ last.arg = <<10, 10>>
    /\ last.ret = 80

----------------------------------------------------------------------------
(* Properties of quiz completion (SpecQuiz) *)

(* C18: with the store serving every call, the stored stars of a unit are  *)
(* the largest star value handed to saveVideoStars for it (2 then 1 leaves *)
(* 2), and a saveVideoStars whose value is not above the stored one issues *)
(* no write                                                                *)
StarsAreMaxSaved ==
    ~saved.faulted =>
        /\ \A v \in DOMAIN saved.stars :
               Stored(progress.video_stars, v) = saved.stars[v]
        /\ (Served("handleQuizComplete") /\ isGamifiedVersion(condition)
               /\ last.ret.stars <= Stored(preProgress.video_stars, last.arg))
              => last.ret.starWrites = 0

\* a unit whose stars were 2 was completed again with 1 star
LowerStarsSavedReached ==
    /\ ~saved.faulted
    /\ Served("handleQuizComplete")
    /\ isGamifiedVersion(condition)
    /\ Stored(preProgress.video_stars, last.arg) = 2
    /\ last.ret.stars = 1
    /\ Stored(progress.video_stars, last.arg) = 2

(* C20: a gamified participant with a gamification record and nothing      *)
(* completed has unit 0 unlocked and unit 1 locked; when the store serves   *)
(* handleQuizComplete of unit 0 with 9 of 10, the stored stars of unit 0   *)
(* are 2 and its score 9, unit 1 is unlocked, xp is 55 higher and hearts   *)
(* are as before                                                           *)
FirstCompletionEndToEnd ==
    (Served("handleQuizComplete") /\ isGamifiedVersion(condition)
        /\ preGam.exists /\ Len(preProgress.completed_videos) = 0
        /\ last.arg = allVideoIds[1] /\ quiz = <<9, 10>>) =>
        /\ isVideoUnlocked(preProgress, TRUE, 0)
        /\ ~isVideoUnlocked(preProgress, TRUE, 1)
        /\ Stored(progress.video_stars, allVideoIds[1]) = 2
        /\ Stored(progress.video_scores, allVideoIds[1]) = 9
        /\ isVideoUnlocked(progress, TRUE, 1)
        /\ gam.xp = preGam.xp + 55
        /\ gam.hearts = preGam.hearts

\* the first completion, 9 of 10, by a participant who had lost a heart
FirstCompletionReached ==
    /\ Served("handleQuizComplete")
    /\ isGamifiedVersion(condition)
    /\ preGam.exists /\ preGam.hearts = MAX_HEARTS - 1
    /\ Len(preProgress.completed_videos) = 0
    /\ last.arg = allVideoIds[1] /\ quiz = <<9, 10>>
    /\ gam.xp = 55

(* C25: when the insert of saveQuizResult or the upsert of                 *)
(* markVideoCompleted fails, handleQuizComplete throws, and the progress   *)
(* row is as before: the unit is not added to the completed videos and     *)
(* every unit is locked or unlocked as it was                              *)
FailedSaveThrowsAndKeepsProgress ==
    (last.op = "handleQuizComplete" /\ last.ret.plan \in {1, 3}) =>
        /\ last.threw
        /\ progress = preProgress
        /\ Includes(progress.completed_videos, last.arg)
              = Includes(preProgress.completed_videos, last.arg)
        /\ \A i \in 0..(NumUnits - 1) :
              isVideoUnlocked(progress, TRUE, i) = isVideoUnlocked(preProgress, TRUE, i)

\* the upsert of the first completion of unit 0 failed: unit 1 stays locked
FailedFirstCompletionReached ==
    /\ last.op = "handleQuizComplete" /\ last.ret.plan = 3
    /\ last.arg = allVideoIds[1]
    /\ preProgress.exists
    /\ ~Includes(progress.completed_videos, allVideoIds[1])
    /\ ~isVideoUnlocked(progress, TRUE, 1)
    /\ last.threw

----------------------------------------------------------------------------
(* Properties of the day label (SpecClock) *)

(* C28: getESTDate returns the calendar day of the instant at UTC-5, one   *)
(* day later when the UTC-5 wall clock shows 23:59, and returns the same   *)
(* label on a client in any zone                                           *)
DayLabelIsZoneFree ==
    last.op = "getESTDate" =>
        LET wall == clock.instant + (estOffset * MsPerMinute)
            lastMinute == (wall \div MsPerMinute) % 1440 = 1439
        IN /\ last.ret = ISODay(wall) + (IF lastMinute THEN 1 ELSE 0)
           /\ \A offset \in Offsets : getESTDate(clock.instant, offset) = last.ret

----------------------------------------------------------------------------
(* Properties of two tabs (SpecTabs) *)

(* C23: in every reachable state a unit that has stars or a best score     *)
(* stored is among the stored completed videos, also with completions      *)
(* issued from two tabs                                                    *)
ScoredUnitsAreCompleted ==
    \A v \in DOMAIN progress.video_stars \cup DOMAIN progress.video_scores :
        Includes(progress.completed_videos, v)

(* C30: no step removes a unit from the stored completed videos, and once  *)
(* the handlers of both tabs have finished, every unit a markVideoCompleted*)
(* was run for is among them                                               *)
CompletedUnitsAreKept ==
    /\ \A v \in VideoIds :
           Includes(preProgress.completed_videos, v)
               => Includes(progress.completed_videos, v)
    /\ (\A t \in Tabs : tabs[t].pc = "idle") =>
           \A v \in DOMAIN saved.scores : Includes(progress.completed_videos, v)

(* C33: the upsert of addXP stores the xp its own select read plus the     *)
(* amount, whatever the stored xp has become since, so that two tabs that  *)
(* each award once can leave the xp of one award only                      *)
XPWriteIsUnchecked ==
    [][\A t \in Tabs :
          (tabs[t].pc = "xpSave" /\ tabs'[t].pc = "streak") =>
              gam'.xp = tabs[t].xp + calculateXP(tabs[t].score[1], tabs[t].score[2])]_vars

\* both tabs have completed one quiz each and the stored xp is the reward
\* of one of them
LostXPReached ==
    /\ \A t \in Tabs : tabs[t].pc = "idle" /\ tabs[t].runs = 1
    /\ gam.exists
    /\ gam.xp \in {calculateXP(q[1], q[2]) : q \in TabOutcomes}

----------------------------------------------------------------------------
(* Properties of the callbacks run one at a time (SpecSessionSerial) *)

(* C36: when a beforeunload or pagehide handler has returned the tracker   *)
(* has no current session, whether or not its update reached the store;    *)
(* the handler issues one update when it found a session and none when it  *)
(* found none, and then changes no row, so a second unload handler leaves  *)
(* the ended_reason of the first                                           *)
UnloadClosesAtOnce ==
    (last.op = "endSessionSync") =>
        /\ tracker.currentSessionId = Null
        /\ tracker.sessionStartTime = Null
        /\ last.writes = (IF preTracker.currentSessionId = Null THEN 0 ELSE 1)
        /\ preTracker.currentSessionId = Null =>
               /\ ~last.ret.changed
               /\ last.ret.created = 0

\* pagehide ran after beforeunload had closed the session: the row keeps
\* page_unload
SecondUnloadReached ==
    /\ last.op = "endSessionSync" /\ last.arg = "page_hide"
    /\ preTracker.currentSessionId = Null
    /\ \E i \in 1..Len(sessions) : sessions[i].ended_reason = "page_unload"

(* C37: when the tab is hidden with a session open and becomes visible     *)
(* next, the store serving both callbacks and the cached identity still    *)
(* there, the earlier row is closed with ended_reason tab_hidden and one   *)
(* row is added: an open row of the cached participant, which becomes the  *)
(* tracker's current session                                               *)
HiddenThenVisibleRestarts ==
    [][(/\ last.op = "endSession" /\ last.arg = "tab_hidden" /\ last.ok
        /\ preTracker.currentSessionId # Null
        /\ tracker.currentParticipantId # Null
        /\ last'.op = "visible" /\ last'.ok) =>
           LET old == preTracker.currentSessionId
               new == Len(sessions')
           IN /\ sessions'[old].ended_reason = "tab_hidden"
              /\ sessions'[old].ended_at # Absent
              /\ new = Len(sessions) + 1
              /\ sessions'[new].participant_id = tracker.currentParticipantId
              /\ sessions'[new].ended_at = Absent
              /\ tracker'.currentSessionId = new
              /\ \A i \in 1..Len(sessions) :
                     Columns(sessions')[i] = Columns(sessions)[i]]_vars

\* the tab came back: the first session is closed by tab_hidden, the
\* second is open and current
RestartedReached ==
    /\ last.op = "visible" /\ last.arg = "startSession" /\ last.ok
    /\ Len(sessions) = 2
    /\ sessions[1].ended_reason = "tab_hidden"
    /\ sessions[2].ended_at = Absent
    /\ tracker.currentSessionId = 2

----------------------------------------------------------------------------
(* Properties of the control condition (SpecControl) *)

(* C40: for a participant of the control condition neither login nor a     *)
(* quiz completion writes to user_gamification or to the stars of          *)
(* user_progress: the gamification row, or its absence, and video_stars    *)
(* stay as they were, whatever the store does with the calls               *)
ControlWritesNoGamification ==
    (condition = "control" /\ last.op \in {"login", "handleQuizComplete"}) =>
        /\ gam = preGam
        /\ progress.video_stars = preProgress.video_stars
        /\ last.writes = 0
        /\ last.op = "handleQuizComplete" => last.ret.starWrites = 0

\* a control participant completed a quiz: the unit is completed with its
\* score, the result is saved, no gamification row exists
ControlCompletionReached ==
    /\ condition = "control"
    /\ Served("handleQuizComplete")
    /\ Includes(progress.completed_videos, last.arg)
    /\ Stored(progress.video_scores, last.arg) = 9
    /\ saved.results = 1
    /\ ~gam.exists

====
